---- MODULE Spec2Model ----
(***************************************************************************)
(* The hungry-monkey search engine: the problem formalisation of           *)
(* hungry_monkey_model.py and the three searches built on it,              *)
(* uniform_cost_search (hungry_monkey_UCS.py), astar_search                *)
(* (hungry_monkey_AStar.py) and iterative_deepening_search                 *)
(* (hungry_monkey_IDS.py).  A behaviour is one search call on one problem  *)
(* instance: Init draws the instance, the actions are the steps of the     *)
(* search that was called.                                                 *)
(***************************************************************************)
EXTENDS Integers, Sequences, FiniteSets, Bags, TLC

VARIABLES
    problem,        \* the HungryMonkeyProblem the search is called with
    strategy,       \* what is called: the search "UCS", "AStar" or "IDS", or "child_node"
    pc,             \* position of the call: "start", "loop", "ids", "successor", "done", "failed"
    frontier,       \* the PriorityQueue's heap array (UCS, A*)
    reached,        \* dict: key node -> recorded cost (UCS, A*)
    solution,       \* cost of the incumbent, Inf while there is none (UCS, A*)
    solution_node,  \* the incumbent node, None while there is none (UCS, A*)
    counter,        \* self.counter
    total_counter,  \* self.total_counter (IDS)
    depth,          \* loop variable of iterative_deepening_search
    stack,          \* call stack of recursive_dls, innermost frame last
    ret,            \* value a recursive_dls call has just returned, None if none
    result          \* value returned by the search (IDS: its local `result`)

vars == <<problem, strategy, pc, frontier, reached, solution, solution_node,
          counter, total_counter, depth, stack, ret, result>>

(***************************************************************************)
(* Bounds of the model.                                                    *)
(***************************************************************************)
MaxX == 4          \* largest grid width
MaxY == 2          \* largest grid height
MaxCells == 4      \* largest number of cells, width * height
MaxBlocks == 1     \* largest number of blocks
MaxBananas == 3    \* largest number of bananas
MaxFurtherCalls == 1  \* calls of child_node a caller makes after its first
WideX == 4         \* width of the wide grid
WideY == 2         \* height of the wide grid
LineX == 12        \* length of the line
MaxWatched == 20   \* nodes a cost search called with the default costs may
                   \* have counted when its next loop iteration is watched

(***************************************************************************)
(* Python values.                                                          *)
(***************************************************************************)
None == <<>>
Inf == 1000000                                  \* math.inf
PySet(S) == [kind |-> "set", elems |-> S]       \* set(food_locations)
PyList(S) == [kind |-> "list", elems |-> S]     \* a list holding the elements S,
                                                \* in the set's iteration order
PyTuple(t) == [kind |-> "tuple", items |-> t]           \* a plain tuple
Cutoff == [kind |-> "list", items |-> <<-1>>]       \* [-1]
NoSolution == [kind |-> "list", items |-> <<-2>>]   \* [-2]
Min2(a, b) == IF a < b THEN a ELSE b
Abs(a) == IF a < 0 THEN -a ELSE a

(***************************************************************************)
(* hungry_monkey_model.py                                                  *)
(***************************************************************************)
Coordinate(x, y) == <<x, y>>

HungryMonkeyState(current_location, remaining_bananas) ==
    [current_location |-> current_location, remaining_bananas |-> remaining_bananas]

HungryMonkeyResult(sequence_actions, total_reward) ==
    [sequence_actions |-> sequence_actions, total_reward |-> total_reward]

HungryMonkeyNode(current_location, remaining_bananas, path_cost, previous_action, parent, heuristic_cost) ==
    [state |-> HungryMonkeyState(Coordinate(current_location[1], current_location[2]),
                                 remaining_bananas),
     path_cost |-> path_cost,
     previous_action |-> previous_action,
     parent |-> parent,
     heuristic_cost |-> heuristic_cost]

\* HungryMonkeyNode(problem.initial_location, problem.banana_locations)
InitialNode(p) == HungryMonkeyNode(p.initial_location, p.banana_locations, 0, "None", None, 0)

\* __hash__: hash((x, y, frozenset(remaining_bananas)))
NodeHash(n) == <<n.state.current_location[1], n.state.current_location[2],
                 n.state.remaining_bananas.elems>>

\* __eq__: x, y and remaining_bananas compared with ==; a set never equals a list
NodeEq(a, b) ==
    /\ a.state.current_location[1] = b.state.current_location[1]
    /\ a.state.current_location[2] = b.state.current_location[2]
    /\ a.state.remaining_bananas = b.state.remaining_bananas

\* __lt__
NodeLt(a, b) ==
    IF a.path_cost + a.heuristic_cost = b.path_cost + b.heuristic_cost
    THEN Cardinality(a.state.remaining_bananas.elems)
            < Cardinality(b.state.remaining_bananas.elems)
    ELSE a.path_cost + a.heuristic_cost < b.path_cost + b.heuristic_cost

\* Eater.Actions and the movement delta each carries (action.value)
Actions == <<"N", "S", "E", "W">>
ActionValue(action) ==
    CASE action = "N" -> <<0, 1>>
      [] action = "S" -> <<0, -1>>
      [] action = "E" -> <<1, 0>>
      [] action = "W" -> <<-1, 0>>

\* the heuristic handed to the problem: lambda x: 0, or heuristic_func of
\* AStarPlayer.start_episode
RECURSIVE MinOf(_)
MinOf(S) == LET x == CHOOSE x \in S : TRUE
            IN IF S = {x} THEN x ELSE Min2(x, MinOf(S \ {x}))

manhattan_distance_between(start, destination) ==
    Abs(destination[1] - start[1]) + Abs(destination[2] - start[2])

heuristic_funcOneWhenDone(node) ==
    LET goal_distances == {manhattan_distance_between(node.state.current_location, b) :
                              b \in node.state.remaining_bananas.elems}
    IN IF goal_distances # {} THEN MinOf(goal_distances) ELSE 1

heuristic_func(node) ==
    LET goal_distances == {manhattan_distance_between(node.state.current_location, b) :
                              b \in node.state.remaining_bananas.elems}
    IN IF goal_distances # {} THEN MinOf(goal_distances) ELSE 0

Heuristic(p, node) == IF p.heuristic_func = "manhattan" THEN heuristic_func(node) ELSE 0

is_inside_grid_mapInclusive(p, location) ==
    /\ 0 <= location[1] /\ location[1] <= p.map_size[1]
    /\ 0 <= location[2] /\ location[2] <= p.map_size[2]

is_inside_grid_map(p, location) ==
    /\ 0 <= location[1] /\ location[1] < p.map_size[1]
    /\ 0 <= location[2] /\ location[2] < p.map_size[2]

FutureLocation(state, action) ==
    Coordinate(state.current_location[1] + ActionValue(action)[1],
               state.current_location[2] + ActionValue(action)[2])

available_actions_for(p, state) ==
    SelectSeq(p.possible_actions,
              LAMBDA action : /\ is_inside_grid_map(p, FutureLocation(state, action))
                              /\ FutureLocation(state, action) \notin p.block_locations)

InSeq(x, s) == \E i \in 1..Len(s) : s[i] = x

successorKeepsBananas(p, state, action) ==
    IF ~InSeq(action, available_actions_for(p, state))
    THEN PyTuple(<<state.current_location, state.remaining_bananas>>)
    ELSE HungryMonkeyState(FutureLocation(state, action),
                           PyList(state.remaining_bananas.elems))

successor(p, state, action) ==
    IF ~InSeq(action, available_actions_for(p, state))
    THEN PyTuple(<<state.current_location, state.remaining_bananas>>)
    ELSE LET new_location == FutureLocation(state, action)
         IN HungryMonkeyState(new_location,
                              PyList(state.remaining_bananas.elems \ {new_location}))

\* `not state.remaining_bananas`: an empty set and an empty list are both falsy
is_goal_stateEmptyList(state) == state.remaining_bananas = PyList({})

is_goal_state(state) == state.remaining_bananas.elems = {}

\* the private path_cost(state, action, next_state) of child_node
StepPathCostNoReward(p, state, action, next_state) == p.step_cost

StepPathCostRewardOnly(p, state, action, next_state) ==
    IF next_state.current_location \notin state.remaining_bananas.elems
    THEN p.step_cost ELSE p.banana_reward

StepPathCost(p, state, action, next_state) ==
    IF next_state.current_location \notin state.remaining_bananas.elems
    THEN p.step_cost
    ELSE p.step_cost + p.banana_reward

\* a plain tuple has no attribute current_location: line 157 raises AttributeError
IsState(v) == "current_location" \in DOMAIN v

child_node(p, node, action) ==
    LET next_state == successor(p, node.state, action)
        path_cost == StepPathCost(p, node.state, action, next_state)
    IN IF ~IsState(next_state) THEN [kind |-> "AttributeError"]
       ELSE HungryMonkeyNode(next_state.current_location, next_state.remaining_bananas,
                        node.path_cost + path_cost, action, <<node>>,
                        Heuristic(p, HungryMonkeyNode(next_state.current_location,
                                                      next_state.remaining_bananas,
                                                      0, "None", None, 0)))

RECURSIVE UnwrapReversed(_)
\* the while loop of unwrap_solution: the actions from node back to the root
UnwrapReversed(current_parent) ==
    IF current_parent.previous_action # "None"
    THEN <<current_parent.previous_action>> \o UnwrapReversed(current_parent.parent[1])
    ELSE <<>>

Reverse(s) == [i \in 1..Len(s) |-> s[Len(s) + 1 - i]]

unwrap_solutionUnreversed(node) == UnwrapReversed(node)

unwrap_solution(node) == Reverse(UnwrapReversed(node))

\* [child_node(node, action) for action in available_actions_for(node.state)]
Successors(p, node) ==
    LET acts == available_actions_for(p, node.state)
    IN [i \in 1..Len(acts) |-> child_node(p, node, acts[i])]

(***************************************************************************)
(* queue.PriorityQueue: put is heapq.heappush, get is heapq.heappop, on a  *)
(* list ordered by __lt__.  Positions are Python's, from 0.                *)
(***************************************************************************)
RECURSIVE SiftDown(_, _, _, _)
SiftDown(heap, startpos, pos, newitem) ==
    IF pos > startpos
    THEN LET parentpos == (pos - 1) \div 2
             parent == heap[parentpos + 1]
         IN IF NodeLt(newitem, parent)
            THEN SiftDown([heap EXCEPT ![pos + 1] = parent], startpos, parentpos, newitem)
            ELSE [heap EXCEPT ![pos + 1] = newitem]
    ELSE [heap EXCEPT ![pos + 1] = newitem]

RECURSIVE SiftUpWalk(_, _, _)
SiftUpWalk(heap, pos, endpos) ==
    LET childpos == 2 * pos + 1
    IN IF childpos < endpos
       THEN LET rightpos == childpos + 1
                c == IF rightpos < endpos /\ ~NodeLt(heap[childpos + 1], heap[rightpos + 1])
                     THEN rightpos ELSE childpos
            IN SiftUpWalk([heap EXCEPT ![pos + 1] = heap[c + 1]], c, endpos)
       ELSE <<heap, pos>>

SiftUp(heap, pos) ==
    LET newitem == heap[pos + 1]
        w == SiftUpWalk(heap, pos, Len(heap))
    IN SiftDown(w[1], pos, w[2], newitem)

FrontierPut(heap, item) == SiftDown(Append(heap, item), 0, Len(heap), item)

FrontierGet(heap) ==
    LET lastelt == heap[Len(heap)]
        rest == SubSeq(heap, 1, Len(heap) - 1)
    IN IF rest # <<>>
       THEN [item |-> rest[1], heap |-> SiftUp([rest EXCEPT ![1] = lastelt], 0)]
       ELSE [item |-> lastelt, heap |-> rest]

(***************************************************************************)
(* The dict `reached`: a function from key nodes to costs, one key per     *)
(* class of __eq__.                                                        *)
(***************************************************************************)
InKeys(child, keys) == \E k \in keys : NodeEq(k, child)
KeyOf(child, keys) == CHOOSE k \in keys : NodeEq(k, child)
DictGet(d, child) == d[KeyOf(child, DOMAIN d)]
DictSet(d, child, v) ==
    IF InKeys(child, DOMAIN d)
    THEN [d EXCEPT ![KeyOf(child, DOMAIN d)] = v]
    ELSE (child :> v) @@ d
EmptyDict == [k \in {} |-> 0]

(***************************************************************************)
(* Path costs are unbounded below when a cycle of the state graph has a    *)
(* negative cost.  SimpleFloor is a lower bound of the cost of every path  *)
(* that repeats no state: it takes fewer steps than there are states and   *)
(* consumes each banana at most once.                                      *)
(***************************************************************************)
NumStates(p) ==
    (p.map_size[1] * p.map_size[2] - Cardinality(p.block_locations))
    * 2 ^ Cardinality(p.banana_locations.elems)
SimpleFloor(p) ==
    Min2(0, p.step_cost) * NumStates(p)
    + Min2(0, p.banana_reward) * Cardinality(p.banana_locations.elems)

(***************************************************************************)
(* UCPlayer.uniform_cost_search                                            *)
(***************************************************************************)
\* line 42: child not in list(reached) or child.path_cost < reached[child]
UCSAdmitsCostlier(child, reached_) ==
    \/ ~InKeys(child, DOMAIN reached_)
    \/ child.path_cost > DictGet(reached_, child)

UCSAdmits(child, reached_) ==
    \/ ~InKeys(child, DOMAIN reached_)
    \/ child.path_cost < DictGet(reached_, child)

RECURSIVE UCSChildren(_, _)
\* the for loop over the successors; acc holds the locals it updates
UCSChildren(succesors, acc) ==
    IF succesors = <<>> THEN acc
    ELSE LET child == Head(succesors)
             admit == UCSAdmits(child, acc.reached)
             better == admit /\ is_goal_state(child.state) /\ child.path_cost < acc.solution
         IN UCSChildren(Tail(succesors),
              [counter |-> acc.counter + 1,
               reached |-> IF admit THEN DictSet(acc.reached, child, child.path_cost)
                           ELSE acc.reached,
               frontier |-> IF admit THEN FrontierPut(acc.frontier, child) ELSE acc.frontier,
               solution |-> IF better THEN child.path_cost ELSE acc.solution,
               solution_node |-> IF better THEN <<child>> ELSE acc.solution_node])

UCSStart ==
    /\ strategy = "UCS" /\ pc = "start"
    /\ counter' = counter + 1
    /\ IF is_goal_state(InitialNode(problem).state)
       THEN /\ result' = HungryMonkeyResult(<<>>, 0)
            /\ pc' = "done"
            /\ UNCHANGED <<frontier, reached, solution, solution_node>>
       ELSE /\ frontier' = FrontierPut(<<>>, InitialNode(problem))
            /\ reached' = EmptyDict
            /\ solution' = Inf
            /\ solution_node' = None
            /\ pc' = "loop"
            /\ UNCHANGED result
    /\ UNCHANGED <<problem, strategy, total_counter, depth, stack, ret>>

\* one iteration of the while loop: the test pops `parent`, the body expands it
UCSLoop ==
    /\ strategy = "UCS" /\ pc = "loop"
    /\ frontier # <<>>
    /\ LET got == FrontierGet(frontier)
           parent == got.item
       IN /\ parent.path_cost < solution
          /\ LET acc == UCSChildren(Successors(problem, parent),
                                    [counter |-> counter, reached |-> reached,
                                     frontier |-> got.heap, solution |-> solution,
                                     solution_node |-> solution_node])
             IN /\ counter' = acc.counter
                /\ reached' = acc.reached
                /\ frontier' = acc.frontier
                /\ solution' = acc.solution
                /\ solution_node' = acc.solution_node
    /\ UNCHANGED <<problem, strategy, pc, total_counter, depth, stack, ret, result>>

\* the while test fails, then line 48: unwrap_solution(None) raises AttributeError
UCSReturn ==
    /\ strategy = "UCS" /\ pc = "loop"
    /\ \/ /\ frontier = <<>>
          /\ UNCHANGED frontier
       \/ /\ frontier # <<>>
          /\ ~(FrontierGet(frontier).item.path_cost < solution)
          /\ frontier' = FrontierGet(frontier).heap
    /\ IF solution_node = None
       THEN /\ pc' = "failed"
            /\ result' = [kind |-> "AttributeError"]
       ELSE /\ pc' = "done"
            /\ result' = HungryMonkeyResult(unwrap_solution(solution_node[1]), solution)
    /\ UNCHANGED <<problem, strategy, reached, solution, solution_node, counter,
                   total_counter, depth, stack, ret>>

(***************************************************************************)
(* AStarPlayer.astar_search                                                *)
(***************************************************************************)
\* line 46: child not in list(reached) or child_total_cost < reached[child]
AStarAdmitsByPathCost(child, reached_) ==
    \/ ~InKeys(child, DOMAIN reached_)
    \/ child.path_cost < DictGet(reached_, child)

AStarAdmits(child, reached_) ==
    \/ ~InKeys(child, DOMAIN reached_)
    \/ child.path_cost + child.heuristic_cost < DictGet(reached_, child)

RECURSIVE AStarChildren(_, _)
AStarChildren(successors, acc) ==
    IF successors = <<>> THEN acc
    ELSE LET child == Head(successors)
             child_total_cost == child.path_cost + child.heuristic_cost
             admit == AStarAdmits(child, acc.reached)
             better == admit /\ is_goal_state(child.state) /\ child_total_cost < acc.solution
         IN AStarChildren(Tail(successors),
              [reached |-> IF admit THEN DictSet(acc.reached, child, child_total_cost)
                           ELSE acc.reached,
               frontier |-> IF admit THEN FrontierPut(acc.frontier, child) ELSE acc.frontier,
               solution |-> IF better THEN child_total_cost ELSE acc.solution,
               solution_node |-> IF better THEN <<child>> ELSE acc.solution_node])

AStarStart ==
    /\ strategy = "AStar" /\ pc = "start"
    /\ IF is_goal_state(InitialNode(problem).state)
       THEN /\ counter' = counter + 1
            /\ result' = HungryMonkeyResult(<<>>, 0)
            /\ pc' = "done"
            /\ UNCHANGED <<frontier, reached, solution, solution_node>>
       ELSE /\ frontier' = FrontierPut(<<>>, InitialNode(problem))
            /\ reached' = EmptyDict
            /\ solution' = Inf
            /\ solution_node' = None
            /\ pc' = "loop"
            /\ UNCHANGED <<result, counter>>
    /\ UNCHANGED <<problem, strategy, total_counter, depth, stack, ret>>

AStarLoop ==
    /\ strategy = "AStar" /\ pc = "loop"
    /\ frontier # <<>>
    /\ LET got == FrontierGet(frontier)
           parent == got.item
       IN /\ parent.path_cost + parent.heuristic_cost < solution
          /\ LET acc == AStarChildren(Successors(problem, parent),
                                      [reached |-> reached, frontier |-> got.heap,
                                       solution |-> solution,
                                       solution_node |-> solution_node])
             IN /\ counter' = counter + 1
                /\ reached' = acc.reached
                /\ frontier' = acc.frontier
                /\ solution' = acc.solution
                /\ solution_node' = acc.solution_node
    /\ UNCHANGED <<problem, strategy, pc, total_counter, depth, stack, ret, result>>

AStarReturn ==
    /\ strategy = "AStar" /\ pc = "loop"
    /\ \/ /\ frontier = <<>>
          /\ UNCHANGED frontier
       \/ /\ frontier # <<>>
          /\ LET parent == FrontierGet(frontier).item
             IN ~(parent.path_cost + parent.heuristic_cost < solution)
          /\ frontier' = FrontierGet(frontier).heap
    /\ IF solution_node = None
       THEN /\ pc' = "failed"
            /\ result' = [kind |-> "AttributeError"]
       ELSE /\ pc' = "done"
            /\ result' = HungryMonkeyResult(unwrap_solution(solution_node[1]), solution)
    /\ UNCHANGED <<problem, strategy, reached, solution, solution_node, counter,
                   total_counter, depth, stack, ret>>

\* astar_search as a function of the problem: the while loop of lines 41-51
\* run from the locals `st` until its test fails; the test that fails has
\* popped the node it compared
RECURSIVE AStarWhile(_, _)
AStarWhile(p, st) ==
    IF st.frontier = <<>> THEN st
    ELSE LET got == FrontierGet(st.frontier)
             parent == got.item
         IN IF ~(parent.path_cost + parent.heuristic_cost < st.solution)
            THEN [st EXCEPT !.frontier = got.heap]
            ELSE AStarWhile(p, AStarChildren(Successors(p, parent),
                                   [reached |-> st.reached, frontier |-> got.heap,
                                    solution |-> st.solution,
                                    solution_node |-> st.solution_node]))

\* lines 29-52: the value astar_search returns, or the error line 52 raises
astar_search(p) ==
    IF is_goal_state(InitialNode(p).state) THEN HungryMonkeyResult(<<>>, 0)
    ELSE LET st == AStarWhile(p, [reached |-> EmptyDict,
                                  frontier |-> FrontierPut(<<>>, InitialNode(p)),
                                  solution |-> Inf, solution_node |-> None])
         IN IF st.solution_node = None THEN [kind |-> "AttributeError"]
            ELSE HungryMonkeyResult(unwrap_solution(st.solution_node[1]), st.solution)

(***************************************************************************)
(* IDPlayer: iterative_deepening_search, depth_limited_search and          *)
(* recursive_dls.  A frame of `stack` is one activation of recursive_dls:  *)
(* its arguments, its locals, and where it stands ("enter": at line 58,    *)
(* "loop": in the for loop over clean_childs, about to try child i).       *)
(***************************************************************************)
\* membership in a Python set of nodes: same hash and __eq__
InNodeSet(n, S) == \E e \in S : NodeHash(e) = NodeHash(n) /\ NodeEq(e, n)
NodeSetAdd(S, n) == IF InNodeSet(n, S) THEN S ELSE S \cup {n}

FrameOneDeeper(node, limit, explored_nodes) ==
    [node |-> node, limit |-> limit + 1, explored_nodes |-> explored_nodes,
     phase |-> "enter", clean_childs |-> <<>>, new_explored_nodes |-> {},
     i |-> 1, cutoff_occured |-> FALSE]

Frame(node, limit, explored_nodes) ==
    [node |-> node, limit |-> limit, explored_nodes |-> explored_nodes,
     phase |-> "enter", clean_childs |-> <<>>, new_explored_nodes |-> {},
     i |-> 1, cutoff_occured |-> FALSE]

Top == stack[Len(stack)]
Pop == SubSeq(stack, 1, Len(stack) - 1)
SetTop(f) == [stack EXCEPT ![Len(stack)] = f]

\* range((map_size.x * map_size.y) - len(block_locations))
DepthRangeAllCells(p) == p.map_size[1] * p.map_size[2]

DepthRange(p) == p.map_size[1] * p.map_size[2] - Cardinality(p.block_locations)

\* clean_childs = list(filter(lambda child: child not in explored_nodes, childs))
CleanChilds(p, node, explored_nodes) ==
    SelectSeq(Successors(p, node), LAMBDA child : ~InNodeSet(child, explored_nodes))

\* lines 81-84: the result of a call whose for loop ran to its end
LoopResultSwapped(cutoff_occured) == IF cutoff_occured THEN NoSolution ELSE Cutoff

LoopResult(cutoff_occured) == IF cutoff_occured THEN Cutoff ELSE NoSolution

\* line 32 / line 55: result = self.depth_limited_search(problem, depth)
depth_limited_search ==
    /\ strategy = "IDS" /\ pc \in {"start", "ids"}
    /\ stack = <<>> /\ ret = None
    /\ depth < DepthRange(problem)
    /\ stack' = <<Frame(InitialNode(problem), depth, {InitialNode(problem)})>>
    /\ pc' = "ids"
    /\ UNCHANGED <<problem, strategy, frontier, reached, solution, solution_node,
                   counter, total_counter, depth, ret, result>>

\* lines 58-71: a call of recursive_dls up to its for loop
DLSEnter ==
    /\ strategy = "IDS" /\ pc = "ids"
    /\ stack # <<>> /\ Top.phase = "enter"
    /\ counter' = counter + 1
    /\ total_counter' = total_counter + 1
    /\ IF is_goal_state(Top.node.state)
       THEN /\ ret' = <<HungryMonkeyResult(unwrap_solution(Top.node), Top.node.path_cost)>>
            /\ stack' = Pop
       ELSE IF Top.limit = 0
       THEN /\ ret' = <<Cutoff>>
            /\ stack' = Pop
       ELSE /\ ret' = None
            /\ stack' = SetTop([Top EXCEPT
                   !.phase = "loop",
                   !.cutoff_occured = FALSE,
                   !.clean_childs = CleanChilds(problem, Top.node, Top.explored_nodes),
                   !.new_explored_nodes = NodeSetAdd(Top.explored_nodes, Top.node),
                   !.i = 1])
    /\ UNCHANGED <<problem, strategy, pc, frontier, reached, solution, solution_node,
                   depth, result>>

\* line 73-74: the for loop takes its next child and recurses, or is exhausted
\* and lines 81-84 return
DLSNextChild ==
    /\ strategy = "IDS" /\ pc = "ids"
    /\ stack # <<>> /\ Top.phase = "loop" /\ ret = None
    /\ IF Top.i <= Len(Top.clean_childs)
       THEN /\ stack' = Append(stack, Frame(Top.clean_childs[Top.i], Top.limit - 1,
                                            Top.new_explored_nodes))
            /\ UNCHANGED ret
       ELSE /\ stack' = Pop
            /\ ret' = <<LoopResult(Top.cutoff_occured)>>
    /\ UNCHANGED <<problem, strategy, pc, frontier, reached, solution, solution_node,
                   counter, total_counter, depth, result>>

\* lines 76-79: the recursive call returned `ret`
DLSChildReturned ==
    /\ strategy = "IDS" /\ pc = "ids"
    /\ stack # <<>> /\ Top.phase = "loop" /\ ret # None
    /\ IF ret[1] = Cutoff
       THEN /\ stack' = SetTop([Top EXCEPT !.cutoff_occured = TRUE, !.i = @ + 1])
            /\ ret' = None
       ELSE IF ret[1] # NoSolution
       THEN /\ stack' = Pop
            /\ UNCHANGED ret
       ELSE /\ stack' = SetTop([Top EXCEPT !.i = @ + 1])
            /\ ret' = None
    /\ UNCHANGED <<problem, strategy, pc, frontier, reached, solution, solution_node,
                   counter, total_counter, depth, result>>

\* lines 32-40: depth_limited_search returned; return, or go on to the next depth
IDSResult ==
    /\ strategy = "IDS" /\ pc = "ids"
    /\ stack = <<>> /\ ret # None
    /\ result' = ret[1]
    /\ ret' = None
    /\ counter' = 0
    /\ IF ret[1] # Cutoff
       THEN pc' = "done" /\ UNCHANGED depth
       ELSE IF depth + 1 < DepthRange(problem)
       THEN pc' = "ids" /\ depth' = depth + 1
       ELSE pc' = "done" /\ UNCHANGED depth
    /\ UNCHANGED <<problem, strategy, frontier, reached, solution, solution_node,
                   total_counter, stack>>

(***************************************************************************)
(* The problem instances: HungryMonkeyProblem.__init__ on a world of       *)
(* at most MaxCells cells.  The eater stands on a free cell; food lies on  *)
(* free cells other than the eater's.                                      *)
(***************************************************************************)
MapSizes == {s \in (1..MaxX) \X (1..MaxY) : s[1] * s[2] <= MaxCells}
Cells(s) == (0..(s[1] - 1)) \X (0..(s[2] - 1))

\* (step_cost, banana_reward): the players pass 1, -10 to the cost searches;
\* the defaults of __init__ are -1, 10
HarnessCosts == <<1, -10>>
DefaultCosts == <<-1, 10>>

HungryMonkeyProblem(size, blocks, eater, food, costs, h) ==
    [map_size |-> size,
     initial_location |-> eater,
     block_locations |-> blocks,
     banana_locations |-> PySet(food),
     step_cost |-> costs[1],
     banana_reward |-> costs[2],
     possible_actions |-> Actions,
     heuristic_func |-> h]

\* the blocks, the eater's cell and the food cells a world of this size can hold
BlockSets(size) == {b \in SUBSET Cells(size) : Cardinality(b) <= MaxBlocks}
EaterCells(size, blocks) == Cells(size) \ blocks
FoodSets(size, blocks, eater) ==
    {f \in SUBSET ((Cells(size) \ blocks) \ {eater}) : Cardinality(f) <= MaxBananas}

Init ==
    /\ strategy \in {"UCS", "AStar", "IDS"}
    /\ \E size \in MapSizes :
         \E blocks \in BlockSets(size) :
           \E eater \in EaterCells(size, blocks) :
             \E food \in FoodSets(size, blocks, eater) :
               \E costs \in IF strategy = "IDS" THEN {DefaultCosts}
                            ELSE {HarnessCosts} :
                  problem = HungryMonkeyProblem(size, blocks, eater, food, costs,
                               IF strategy = "AStar" THEN "manhattan" ELSE "zero")
    /\ pc = "start"
    /\ frontier = <<>>
    /\ reached = EmptyDict
    /\ solution = Inf
    /\ solution_node = None
    /\ counter = 0
    /\ total_counter = 0
    /\ depth = 0
    /\ stack = <<>>
    /\ ret = None
    /\ result = [kind |-> "unset"]

Next ==
    \/ UCSStart
    \/ UCSLoop
    \/ UCSReturn
    \/ AStarStart
    \/ AStarLoop
    \/ AStarReturn
    \/ depth_limited_search
    \/ DLSEnter
    \/ DLSNextChild
    \/ DLSChildReturned
    \/ IDSResult

Spec == Init /\ [][Next]_vars

\* a call of iterative_deepening_search runs to completion: it is never
\* suspended while a step of it is possible
IDSNext ==
    depth_limited_search \/ DLSEnter \/ DLSNextChild \/ DLSChildReturned \/ IDSResult

FairSpec == Spec /\ WF_vars(IDSNext)

(***************************************************************************)
(* The cost searches as their players start them (step cost 1, reward -10) *)
(* on the obstacle-free grid of WideX by WideY cells.                      *)
(***************************************************************************)
WideInit ==
    /\ strategy \in {"UCS", "AStar"}
    /\ \E eater \in Cells(<<WideX, WideY>>) :
         \E food \in FoodSets(<<WideX, WideY>>, {}, eater) :
            problem = HungryMonkeyProblem(<<WideX, WideY>>, {}, eater, food, HarnessCosts,
                         IF strategy = "AStar" THEN "manhattan" ELSE "zero")
    /\ pc = "start"
    /\ frontier = <<>>
    /\ reached = EmptyDict
    /\ solution = Inf
    /\ solution_node = None
    /\ counter = 0
    /\ total_counter = 0
    /\ depth = 0
    /\ stack = <<>>
    /\ ret = None
    /\ result = [kind |-> "unset"]

CostSearchNext ==
    \/ UCSStart
    \/ UCSLoop
    \/ UCSReturn
    \/ AStarStart
    \/ AStarLoop
    \/ AStarReturn

WideSpec == WideInit /\ [][CostSearchNext]_vars

(***************************************************************************)
(* The cost searches as their players start them on the obstacle-free line *)
(* of LineX cells, with bananas on cells next to the eater and one banana  *)
(* on any other cell.  On a line this long a search reaches a state again  *)
(* at a lower cost than it recorded for it.                                *)
(***************************************************************************)
NextTo(size, eater) == {c \in Cells(size) : Abs(c[1] - eater[1]) + Abs(c[2] - eater[2]) = 1}

LineInit ==
    /\ strategy \in {"UCS", "AStar"}
    /\ \E eater \in Cells(<<LineX, 1>>) :
         \E near \in SUBSET NextTo(<<LineX, 1>>, eater) :
           \E far \in (Cells(<<LineX, 1>>) \ {eater}) \ NextTo(<<LineX, 1>>, eater) :
              problem = HungryMonkeyProblem(<<LineX, 1>>, {}, eater, near \cup {far},
                           HarnessCosts,
                           IF strategy = "AStar" THEN "manhattan" ELSE "zero")
    /\ pc = "start"
    /\ frontier = <<>>
    /\ reached = EmptyDict
    /\ solution = Inf
    /\ solution_node = None
    /\ counter = 0
    /\ total_counter = 0
    /\ depth = 0
    /\ stack = <<>>
    /\ ret = None
    /\ result = [kind |-> "unset"]

LineSpec == LineInit /\ [][CostSearchNext]_vars

(***************************************************************************)
(* A caller of the problem's transition: problem.child_node(node, action)  *)
(* on the root node with any action of the problem's action set.  The      *)
(* frame on `stack` holds the arguments of the call, `ret` what successor  *)
(* returned to child_node, `result` the node child_node returns.           *)
(***************************************************************************)
TransitionInit ==
    /\ strategy = "child_node"
    /\ \E size \in MapSizes :
         \E blocks \in BlockSets(size) :
           \E eater \in EaterCells(size, blocks) :
             \E food \in FoodSets(size, blocks, eater) :
               \E costs \in {HarnessCosts, DefaultCosts} :
                  problem = HungryMonkeyProblem(size, blocks, eater, food, costs, "zero")
    /\ pc = "start"
    /\ frontier = <<>>
    /\ reached = EmptyDict
    /\ solution = Inf
    /\ solution_node = None
    /\ counter = 0
    /\ total_counter = 0
    /\ depth = 0
    /\ stack = <<>>
    /\ ret = None
    /\ result = [kind |-> "unset"]

\* line 159: next_state = self.successor(node.state, action)
ChildNodeSuccessor ==
    /\ strategy = "child_node" /\ pc = "start"
    /\ \E action \in {problem.possible_actions[i] : i \in 1..Len(problem.possible_actions)} :
         /\ stack' = <<[node |-> InitialNode(problem), action |-> action]>>
         /\ ret' = <<successor(problem, InitialNode(problem).state, action)>>
    /\ pc' = "successor"
    /\ UNCHANGED <<problem, strategy, frontier, reached, solution, solution_node,
                   counter, total_counter, depth, result>>

\* lines 160-162: the path cost and the node, or the AttributeError of line 157
ChildNodeReturn ==
    /\ strategy = "child_node" /\ pc = "successor"
    /\ LET child == child_node(problem, stack[1].node, stack[1].action)
       IN /\ result' = child
          /\ pc' = IF "state" \in DOMAIN child THEN "done" ELSE "failed"
    /\ UNCHANGED <<problem, strategy, frontier, reached, solution, solution_node,
                   counter, total_counter, depth, stack, ret>>

TransitionNext ==
    \/ ChildNodeSuccessor
    \/ ChildNodeReturn

TransitionSpec == TransitionInit /\ [][TransitionNext]_vars

(***************************************************************************)
(* A caller that goes on: problem.child_node(node, action) on the node a   *)
(* previous call returned, as every search calls it on the nodes it holds. *)
(* `counter` counts these further calls.                                   *)
(***************************************************************************)
ChildNodeOfChild ==
    /\ strategy = "child_node" /\ pc = "done"
    /\ counter < MaxFurtherCalls
    /\ \E action \in {problem.possible_actions[i] : i \in 1..Len(problem.possible_actions)} :
         /\ stack' = <<[node |-> result, action |-> action]>>
         /\ ret' = <<successor(problem, result.state, action)>>
    /\ counter' = counter + 1
    /\ pc' = "successor"
    /\ UNCHANGED <<problem, strategy, frontier, reached, solution, solution_node,
                   total_counter, depth, result>>

(***************************************************************************)
(* The searches as their players start them, beside the callers of the     *)
(* transition with the problem's default costs and the players' costs.     *)
(***************************************************************************)
SearchOrWalkInit == Init \/ TransitionInit

SearchOrWalkNext ==
    \/ Next
    \/ TransitionNext
    \/ ChildNodeOfChild

SearchOrWalkSpec == SearchOrWalkInit /\ [][SearchOrWalkNext]_vars

(***************************************************************************)
(* The searches as their players start them, beside the first loop         *)
(* iterations of uniform_cost_search and astar_search called on a problem  *)
(* with the default costs of HungryMonkeyProblem (step cost -1, reward     *)
(* +10).  Such a call need not return; its iterations are watched while    *)
(* `counter` is below MaxWatched, and the run goes on unwatched after that.*)
(***************************************************************************)
DefaultCostInit ==
    /\ strategy \in {"UCS", "AStar"}
    /\ \E size \in MapSizes :
         \E blocks \in BlockSets(size) :
           \E eater \in EaterCells(size, blocks) :
             \E food \in FoodSets(size, blocks, eater) :
                problem = HungryMonkeyProblem(size, blocks, eater, food, DefaultCosts,
                             IF strategy = "AStar" THEN "manhattan" ELSE "zero")
    /\ pc = "start"
    /\ frontier = <<>>
    /\ reached = EmptyDict
    /\ solution = Inf
    /\ solution_node = None
    /\ counter = 0
    /\ total_counter = 0
    /\ depth = 0
    /\ stack = <<>>
    /\ ret = None
    /\ result = [kind |-> "unset"]

Watched ==
    \/ problem.step_cost = HarnessCosts[1] /\ problem.banana_reward = HarnessCosts[2]
    \/ counter < MaxWatched

WatchedInit == Init \/ DefaultCostInit

WatchedNext ==
    \/ UCSStart
    \/ Watched /\ UCSLoop
    \/ UCSReturn
    \/ AStarStart
    \/ Watched /\ AStarLoop
    \/ AStarReturn
    \/ IDSNext

WatchedSpec == WatchedInit /\ [][WatchedNext]_vars

(***************************************************************************)
(* Vocabulary of the properties.                                           *)
(***************************************************************************)
Harness == problem.step_cost = HarnessCosts[1] /\ problem.banana_reward = HarnessCosts[2]
CostSearch == strategy \in {"UCS", "AStar"}
Returned == pc = "done"
Raised == pc = "failed"
IsResult(r) == DOMAIN r = {"sequence_actions", "total_reward"}

\* two nodes of the same state: the same cell and the same remaining bananas
SameState(a, b) ==
    /\ a.state.current_location = b.state.current_location
    /\ a.state.remaining_bananas.elems = b.state.remaining_bananas.elems

\* the cells the eater can walk to
RECURSIVE WalkFrom(_, _)
WalkFrom(p, S) ==
    LET more == {FutureLocation([current_location |-> c], a) :
                   c \in S, a \in {p.possible_actions[i] : i \in 1..Len(p.possible_actions)}}
        legal == {c \in more : is_inside_grid_map(p, c) /\ c \notin p.block_locations}
    IN IF legal \subseteq S THEN S ELSE WalkFrom(p, S \cup legal)
ReachableCells(p) == WalkFrom(p, {p.initial_location})

\* a state with no remaining banana can be reached from the initial state
Solvable(p) == p.banana_locations.elems \subseteq ReachableCells(p)

\* the states (location, remaining bananas) of the problem
States(p) ==
    {HungryMonkeyState(c, PyList(R)) : c \in ReachableCells(p),
                                       R \in SUBSET p.banana_locations.elems}

\* one more action allowed: from table `best` (least cost to finish within
\* some number of actions, Inf if impossible) the table for one action more
OneMore(p, best) ==
    [q \in States(p) |->
        LET acts == available_actions_for(p, q)
            via(a) == LET q2 == successor(p, q, a)
                      IN IF best[q2] = Inf THEN Inf
                         ELSE StepPathCost(p, q, a, q2) + best[q2]
        IN MinOf({best[q]} \cup {via(acts[i]) : i \in 1..Len(acts)})]

\* BestWithin(p, best, n): the least total path cost of an action sequence of
\* at most n more legal actions that ends in a state with no remaining banana
RECURSIVE BestWithin(_, _, _)
BestWithin(p, best, n) ==
    IF n = 0 \/ OneMore(p, best) = best THEN best
    ELSE BestWithin(p, OneMore(p, best), n - 1)

\* the least total path cost of a plan from the initial state; a plan longer
\* than the number of states repeats a state
OptimalCost(p) ==
    BestWithin(p, [q \in States(p) |-> IF is_goal_state(q) THEN 0 ELSE Inf],
               Cardinality(States(p)))[
        HungryMonkeyState(p.initial_location, PyList(p.banana_locations.elems))]

\* replaying a plan: every action is legal where it is applied and the last
\* state has no remaining banana
RECURSIVE ReplayReachesGoal(_, _, _)
ReplayReachesGoal(p, state, actions) ==
    IF actions = <<>> THEN is_goal_state(state)
    ELSE /\ InSeq(Head(actions), available_actions_for(p, state))
         /\ ReplayReachesGoal(p, successor(p, state, Head(actions)), Tail(actions))

ValidPlan(p, r) == IsResult(r) /\ ReplayReachesGoal(p, InitialNode(p).state, r.sequence_actions)

(***************************************************************************)
(* C1: on every problem with a reachable goal-complete state,              *)
(* uniform_cost_search with the harness costs returns a plan whose total   *)
(* path cost is the least over all plans.                                  *)
(***************************************************************************)
C1_UCSReturnsOptimal ==
    (strategy = "UCS" /\ Harness /\ Solvable(problem) /\ (Returned \/ Raised)) =>
        /\ Returned
        /\ IsResult(result)
        /\ result.total_reward = OptimalCost(problem)

(***************************************************************************)
(* C2: a plan returned on a problem whose bananas are all reachable holds  *)
(* only actions legal where they are applied, and replaying it from the    *)
(* initial state ends with no remaining banana.  The cost searches return  *)
(* such a plan on every such problem; iterative deepening, which may end   *)
(* in a cutoff, whenever it returns a plan.                                *)
(***************************************************************************)
C2_ReturnedPlanReachesGoal ==
    (Solvable(problem) /\ (Returned \/ Raised)) =>
        /\ CostSearch => Returned /\ ValidPlan(problem, result)
        /\ (strategy = "IDS" /\ IsResult(result)) => ValidPlan(problem, result)

C2_Witness ==
    /\ Returned /\ IsResult(result)
    /\ Cardinality(problem.banana_locations.elems) >= 2
    /\ Len(result.sequence_actions) >= 3

(***************************************************************************)
(* C3: when no goal-complete state is reachable, uniform_cost_search and   *)
(* astar_search end by frontier exhaustion with an ordinary return value.  *)
(***************************************************************************)
C3_NoSolutionIsReturned ==
    (CostSearch /\ ~Solvable(problem) /\ (Returned \/ Raised)) =>
        /\ frontier = <<>>
        /\ Returned

(***************************************************************************)
(* C4: when no goal-complete state is reachable, the final outcome of      *)
(* iterative_deepening_search is the no-solution signal [-2].              *)
(***************************************************************************)
C4_IDSReportsNoSolution ==
    (strategy = "IDS" /\ ~Solvable(problem) /\ Returned) => result = NoSolution

(***************************************************************************)
(* C5: uniform_cost_search and astar_search terminate on every instance,   *)
(* for the default costs as for the players' costs, because the state      *)
(* graph has no cycle of negative cost.  The certificate of termination:   *)
(* no walk comes back to a state at a lower path cost; while a search is   *)
(* in its loop no recorded cost is below the cost of every plan without a  *)
(* repeated state, and every iteration lowers Variant, which counts the    *)
(* frontier once and the room left under each recorded cost twice.         *)
(***************************************************************************)
RecordedCost(p, q) ==
    IF \E k \in DOMAIN reached : k.state = q
    THEN reached[CHOOSE k \in DOMAIN reached : k.state = q]
    ELSE 2 * NumStates(p) + p.map_size[1] + p.map_size[2]

\* the room left under the recorded costs, summed over the states
Room(p) ==
    BagCardinality([q \in States(p) |-> RecordedCost(p, q) - SimpleFloor(p) + 1])

Variant == Len(frontier) + 2 * Room(problem)

NoCostBelowFloor == \A k \in DOMAIN reached : reached[k] >= SimpleFloor(problem)

InLoopSound == pc = "loop" => NoCostBelowFloor

\* the node and its ancestors
RECURSIVE Chain(_)
Chain(n) == IF n.parent = None THEN {n} ELSE {n} \cup Chain(n.parent[1])

\* the walk child_node has returned does not come back to a state of it at a
\* lower path cost
NoNegativeCycle ==
    (strategy = "child_node" /\ pc = "done") =>
        \A a \in Chain(result) : SameState(a, result) => a.path_cost <= result.path_cost

IterationLowersVariant == (pc = "loop" /\ pc' = "loop") => Variant' < Variant

\* the claim as made: for the default costs as well as the harness values
C5_CostSearchTerminates ==
    /\ [](NoNegativeCycle /\ (CostSearch => InLoopSound))
    /\ [][CostSearch => IterationLowersVariant]_vars

\* the claim for the harness values
C5_HarnessCostSearchTerminates ==
    /\ [](Harness => (NoNegativeCycle /\ (CostSearch => InLoopSound)))
    /\ [][(CostSearch /\ Harness) => IterationLowersVariant]_vars

\* a harness search has returned after refusing children whose state was
\* already recorded at a cost at least as low
C5_Witness ==
    /\ strategy = "UCS" /\ Harness /\ Returned
    /\ Cardinality(problem.banana_locations.elems) >= 2
    /\ Cardinality(DOMAIN reached) < counter - 1

(***************************************************************************)
(* C6: on the 4x1 grid without blocks, the eater at x=0 and one banana at  *)
(* x=3, every strategy returns [East, East, East]; the total is 7 with     *)
(* step cost -1 and banana reward +10.                                     *)
(***************************************************************************)
Scenario6Grid ==
    /\ problem.map_size = <<4, 1>>
    /\ problem.block_locations = {}
    /\ problem.initial_location = <<0, 0>>
    /\ problem.banana_locations.elems = {<<3, 0>>}

Scenario6 ==
    /\ Scenario6Grid
    /\ problem.step_cost = -1 /\ problem.banana_reward = 10

\* the claim as made, for every strategy called with step cost -1 and reward
\* +10.  A cost search returns its incumbent, whose cost never rises: a call
\* that returns 7 never holds an incumbent below 7.
C6_EveryStrategyReturns7 ==
    Scenario6 =>
        /\ (Returned \/ Raised) => result = HungryMonkeyResult(<<"E", "E", "E">>, 7)
        /\ (CostSearch /\ pc = "loop") => solution >= 7

\* iterative deepening returns the plan with total 7; the cost searches,
\* with the costs their start_episode passes, return it with total -7; called
\* with step cost -1 and reward +10 they have not returned while watched
C6_ScenarioResults ==
    /\ (Scenario6Grid /\ (Returned \/ Raised)) =>
          /\ strategy = "IDS" => Scenario6 /\ result = HungryMonkeyResult(<<"E", "E", "E">>, 7)
          /\ CostSearch => Harness /\ result = HungryMonkeyResult(<<"E", "E", "E">>, -7)

\* a cost search started with its player's costs has returned -7
C6_Witness ==
    /\ Scenario6Grid /\ CostSearch /\ Harness /\ Returned
    /\ result = HungryMonkeyResult(<<"E", "E", "E">>, -7)

(***************************************************************************)
(* C7: when the initial state has no remaining banana, every strategy      *)
(* returns the empty plan with total 0 and generates no node besides the   *)
(* root: no frontier, no reached entry, no child frame, one counted node.  *)
(***************************************************************************)
C7_GoalAtStart ==
    problem.banana_locations.elems = {} =>
        /\ pc # "loop" /\ ~Raised
        /\ frontier = <<>> /\ DOMAIN reached = {}
        /\ stack # <<>> => /\ Len(stack) = 1
                           /\ Top.node = InitialNode(problem)
                           /\ Top.phase = "enter"
        /\ depth = 0
        /\ Returned => /\ result = HungryMonkeyResult(<<>>, 0)
                       /\ (IF strategy = "IDS" THEN total_counter ELSE counter) = 1

C7_Witness ==
    /\ problem.banana_locations.elems = {} /\ Returned
    /\ problem.map_size = <<2, 2>>

(***************************************************************************)
(* C8: in recursive_dls no node that is recursed into has the state        *)
(* (location, set of remaining bananas) of a node on the path from the     *)
(* root to its parent, the root included.                                  *)
(***************************************************************************)
C8_NoStateTwiceOnBranch ==
    strategy = "IDS" =>
        \A i, j \in 1..Len(stack) : i < j => ~SameState(stack[i].node, stack[j].node)

(***************************************************************************)
(* C9: two nodes with the same location and the same set of remaining      *)
(* bananas compare equal and hash identically, whatever their path cost,   *)
(* parent or construction; equality is reflexive, symmetric, transitive.   *)
(***************************************************************************)
SeqElems(q) == {q[i] : i \in 1..Len(q)}

\* the nodes a search holds
LiveNodes ==
    {InitialNode(problem)} \cup SeqElems(frontier) \cup DOMAIN reached
    \cup {stack[i].node : i \in 1..Len(stack)}
    \cup UNION {stack[i].explored_nodes : i \in 1..Len(stack)}
    \cup UNION {SeqElems(stack[i].clean_childs) : i \in 1..Len(stack)}

C9_EqualityByState ==
    /\ \A a, b \in LiveNodes :
          /\ SameState(a, b) => NodeEq(a, b) /\ NodeHash(a) = NodeHash(b)
          /\ NodeEq(a, a)
          /\ NodeEq(a, b) => NodeEq(b, a)
    /\ \A a, b, c \in LiveNodes : (NodeEq(a, b) /\ NodeEq(b, c)) => NodeEq(a, c)

(***************************************************************************)
(* C10: iterative_deepening_search tries the depth limits 0, 1, 2, ... in  *)
(* order, returns the first depth-limited result that is not a cutoff,     *)
(* and makes at most k outer iterations on a grid of k free cells.         *)
(***************************************************************************)
FreeCells(p) == Cells(p.map_size) \ p.block_locations

C10_DepthInBound ==
    strategy = "IDS" =>
        /\ depth < Cardinality(FreeCells(problem))
        /\ stack # <<>> => stack[1].limit = depth
        /\ Returned => (result # Cutoff \/ depth = Cardinality(FreeCells(problem)) - 1)

C10_DepthSteps ==
    strategy = "IDS" =>
        /\ depth' # depth => (depth' = depth + 1 /\ ret = <<Cutoff>> /\ stack = <<>>)
        /\ (stack = <<>> /\ ret # None /\ ret # <<Cutoff>>) => (pc' = "done" /\ result' = ret[1])
        /\ (pc # "done" /\ pc' = "done") => result' = ret[1]

C10_IterativeDeepening ==
    /\ []C10_DepthInBound
    /\ [][C10_DepthSteps]_vars
    /\ <>(strategy = "IDS" => Returned)

C10_Witness ==
    /\ strategy = "IDS" /\ Returned /\ result = Cutoff
    /\ problem.block_locations # {}
    /\ depth = Cardinality(FreeCells(problem)) - 1

(***************************************************************************)
(* C11: when every depth limit up to the bound ended in cutoff, the        *)
(* outcome iterative_deepening_search returns is the no-solution outcome,  *)
(* distinguishable from the cutoff outcome and from a Result.              *)
(***************************************************************************)
\* depth_limited_search has returned cutoff for the last depth limit
BoundExhausted ==
    /\ strategy = "IDS" /\ pc = "ids"
    /\ stack = <<>> /\ ret = <<Cutoff>>
    /\ depth = Cardinality(FreeCells(problem)) - 1

\* the claim as made
C11_ExhaustedBoundIsNoSolution ==
    [][BoundExhausted => (pc' = "done" /\ result' = NoSolution)]_vars

(***************************************************************************)
(* C12: on the same problem (grid, goals, step cost, goal reward) the      *)
(* total cost of the plan uniform_cost_search returns is never higher than *)
(* the total cost of the plan astar_search returns with the heuristic of   *)
(* the least Manhattan distance.                                           *)
(***************************************************************************)
\* the problem as AStarPlayer.start_episode builds it
WithManhattan(p) == [p EXCEPT !.heuristic_func = "manhattan"]

\* the function astar_search and the steps of astar_search give the same result
AStarFunctionAgrees ==
    (strategy = "AStar" /\ Harness /\ (Returned \/ Raised)) => result = astar_search(problem)

C12_UCSNotAboveAStar ==
    (strategy = "UCS" /\ Harness /\ Returned /\ IsResult(result)) =>
        LET other == astar_search(WithManhattan(problem))
        IN IsResult(other) => result.total_reward <= other.total_reward

(***************************************************************************)
(* C13: on a grid without blocks, astar_search with the heuristic of the   *)
(* least Manhattan distance and the harness costs returns a plan of the    *)
(* least total cost over all plans that consume every banana.              *)
(***************************************************************************)
C13_AStarReturnsOptimal ==
    (strategy = "AStar" /\ Harness /\ problem.block_locations = {}
       /\ Solvable(problem) /\ (Returned \/ Raised)) =>
        /\ Returned /\ IsResult(result)
        /\ result.total_reward = OptimalCost(problem)

(***************************************************************************)
(* C14: on a grid without blocks the heuristic of the least Manhattan      *)
(* distance is admissible, h(n) is at most the least cost of finishing     *)
(* from n under the problem's step cost and banana reward, and consistent, *)
(* h(n) <= cost(n, a, n') + h(n') for every legal action a.                *)
(***************************************************************************)
\* the least cost of finishing from each state of the problem
RemainingCost(p) ==
    BestWithin(p, [q \in States(p) |-> IF is_goal_state(q) THEN 0 ELSE Inf],
               Cardinality(States(p)))

\* the nodes astar_search has generated with child_node
GeneratedNodes == SeqElems(frontier) \cup DOMAIN reached

C14_HeuristicAdmissibleConsistent ==
    (strategy = "AStar" /\ problem.block_locations = {}) =>
        \A n \in GeneratedNodes :
            LET q == HungryMonkeyState(n.state.current_location,
                                       PyList(n.state.remaining_bananas.elems))
                acts == available_actions_for(problem, q)
            IN /\ heuristic_func(n) <= RemainingCost(problem)[q]
               /\ \A i \in 1..Len(acts) :
                     LET child == child_node(problem, n, acts[i])
                     IN heuristic_func(n) <=
                          StepPathCost(problem, n.state, acts[i], child.state)
                            + heuristic_func(child)

(***************************************************************************)
(* C15: recursive_dls returns a solution for a goal node at any budget and *)
(* cutoff for a non-goal node at budget 0; otherwise the first solution a  *)
(* child returns, in action order and without trying later children,       *)
(* else cutoff if a child returned cutoff, else no-solution.               *)
(***************************************************************************)
\* the outcome the classification gives for a call of recursive_dls
RECURSIVE Classified(_, _, _, _)
Classified(p, node, limit, explored_nodes) ==
    IF node.state.remaining_bananas.elems = {}
    THEN HungryMonkeyResult(unwrap_solution(node), node.path_cost)
    ELSE IF limit = 0 THEN Cutoff
    ELSE LET tried == CleanChilds(p, node, explored_nodes)
             outcome == [i \in 1..Len(tried) |->
                           Classified(p, tried[i], limit - 1,
                                      NodeSetAdd(explored_nodes, node))]
             solved == {i \in 1..Len(tried) : IsResult(outcome[i])}
         IN IF solved # {}
            THEN outcome[CHOOSE i \in solved : \A j \in solved : i <= j]
            ELSE IF \E i \in 1..Len(tried) : outcome[i] = Cutoff THEN Cutoff
            ELSE NoSolution

\* a call returns what the classification gives, and a solution returned by
\* a child is returned at once
C15_ReturnIsClassified ==
    (strategy = "IDS" /\ stack # <<>>) =>
        /\ (ret' # None /\ Len(stack') < Len(stack)) =>
              ret'[1] = Classified(problem, Top.node, Top.limit, Top.explored_nodes)
        /\ (ret # None /\ IsResult(ret[1])) => (stack' = Pop /\ ret' = ret)

C15_RecursiveDLSClassifies == [][C15_ReturnIsClassified]_vars

\* a child has returned a solution while later children are untried
C15_Witness ==
    /\ strategy = "IDS" /\ Len(stack) >= 2
    /\ ret # None /\ IsResult(ret[1])
    /\ Top.phase = "loop" /\ Top.i < Len(Top.clean_childs)

(***************************************************************************)
(* C16: in every node a strategy generates, the remaining bananas are a    *)
(* subset of the problem's bananas, and along every parent chain a child's *)
(* remaining bananas are its parent's minus the child's location.          *)
(***************************************************************************)
\* the nodes a search holds, the incumbent included
HeldNodes ==
    LiveNodes \cup (IF solution_node = None THEN {} ELSE {solution_node[1]})

RECURSIVE BananasShrinkAlongChain(_, _)
BananasShrinkAlongChain(p, n) ==
    /\ n.state.remaining_bananas.elems \subseteq p.banana_locations.elems
    /\ n.parent # None =>
          /\ n.state.remaining_bananas.elems =
                n.parent[1].state.remaining_bananas.elems \ {n.state.current_location}
          /\ BananasShrinkAlongChain(p, n.parent[1])

C16_RemainingBananasShrink ==
    \A n \in HeldNodes : BananasShrinkAlongChain(problem, n)

\* a held node whose step consumed a banana, two or more steps from the root
C16_Witness ==
    \E n \in HeldNodes :
        /\ n.parent # None /\ n.parent[1].parent # None
        /\ n.state.current_location \in n.parent[1].state.remaining_bananas.elems
        /\ n.state.remaining_bananas.elems # {}

(***************************************************************************)
(* C17: available_actions_for(state) returns exactly the actions whose     *)
(* target cell is inside the grid and not a block; every generated node    *)
(* stands on such a cell and was produced by an action legal for its       *)
(* parent's state.                                                         *)
(***************************************************************************)
\* the cell an action leads to
Target(location, action) ==
    <<location[1] + ActionValue(action)[1], location[2] + ActionValue(action)[2]>>

\* the actions of the problem, in their order, that lead to a free cell
LegalActions(p, location) ==
    SelectSeq(p.possible_actions,
              LAMBDA a : Target(location, a) \in Cells(p.map_size) \ p.block_locations)

\* every ancestor of a held node was held when it was expanded
LegalNode(p, n) ==
    /\ n.state.current_location \in Cells(p.map_size) \ p.block_locations
    /\ available_actions_for(p, n.state) = LegalActions(p, n.state.current_location)
    /\ n.parent # None =>
          /\ InSeq(n.previous_action,
                   LegalActions(p, n.parent[1].state.current_location))
          /\ n.state.current_location =
                Target(n.parent[1].state.current_location, n.previous_action)

C17_OnlyLegalActions == \A n \in HeldNodes : LegalNode(problem, n)

\* a generated node next to a block and to the edge of the grid
C17_Witness ==
    \E n \in HeldNodes :
        /\ n.parent # None
        /\ \E a, b \in SeqElems(Actions) :
              /\ Target(n.state.current_location, a) \in problem.block_locations
              /\ Target(n.state.current_location, b) \notin Cells(problem.map_size)
        /\ Len(available_actions_for(problem, n.state)) >= 1

(***************************************************************************)
(* C18: the transition applied with an action that is not legal for the    *)
(* state is a no-op: it returns a State with the same location and the     *)
(* same remaining bananas, which child_node uses like any other State.     *)
(***************************************************************************)
\* the call on the stack applies an action that is not legal for its node
IllegalCall ==
    /\ strategy = "child_node" /\ stack # <<>>
    /\ ~InSeq(stack[1].action,
              LegalActions(problem, stack[1].node.state.current_location))

C18_IllegalActionIsNoOp ==
    IllegalCall =>
        /\ pc = "successor" =>
              /\ IsState(ret[1])
              /\ ret[1].current_location = stack[1].node.state.current_location
              /\ ret[1].remaining_bananas.elems =
                    stack[1].node.state.remaining_bananas.elems
        /\ pc # "failed"
        /\ pc = "done" => SameState(result, stack[1].node)

(***************************************************************************)
(* C19: a node made by child_node has path_cost = parent.path_cost + step  *)
(* cost, plus the banana reward exactly when its location was one of the   *)
(* parent's remaining bananas; hence path_cost = depth * step_cost +       *)
(* (bananas consumed on its path) * banana_reward, and the root has 0.     *)
(***************************************************************************)
\* the number of actions from the root to n
RECURSIVE ChainLength(_)
ChainLength(n) == IF n.parent = None THEN 0 ELSE 1 + ChainLength(n.parent[1])

PathCostOfNode(p, n) ==
    /\ n.parent = None => n.path_cost = 0
    /\ n.parent # None =>
          n.path_cost = n.parent[1].path_cost + p.step_cost
              + (IF n.state.current_location
                       \in n.parent[1].state.remaining_bananas.elems
                 THEN p.banana_reward ELSE 0)
    /\ n.path_cost = ChainLength(n) * p.step_cost
          + (Cardinality(p.banana_locations.elems)
               - Cardinality(n.state.remaining_bananas.elems)) * p.banana_reward

C19_PathCostAccumulates == \A n \in HeldNodes : PathCostOfNode(problem, n)

\* a held node three or more actions from the root that has consumed a banana
C19_Witness ==
    \E n \in HeldNodes :
        /\ ChainLength(n) >= 3
        /\ n.state.remaining_bananas.elems # problem.banana_locations.elems
        /\ n.state.remaining_bananas.elems # {}

(***************************************************************************)
(* C20: the total of a returned Result is the accumulated cost of the      *)
(* returned action sequence: the sum, over the steps of replaying it from  *)
(* the initial state, of the step cost plus the banana reward for each     *)
(* step that consumes a banana, with no heuristic component.               *)
(***************************************************************************)
\* the cost of replaying actions from a location with bananas remaining
RECURSIVE ReplayCost(_, _, _, _)
ReplayCost(p, location, remaining, actions) ==
    IF actions = <<>> THEN 0
    ELSE LET next == Target(location, Head(actions))
         IN p.step_cost + (IF next \in remaining THEN p.banana_reward ELSE 0)
              + ReplayCost(p, next, remaining \ {next}, Tail(actions))

C20_TotalIsCostOfPlan ==
    (Returned /\ IsResult(result)) =>
        result.total_reward =
            ReplayCost(problem, problem.initial_location,
                       problem.banana_locations.elems, result.sequence_actions)

C20_Witness ==
    /\ strategy = "AStar" /\ Harness /\ Returned /\ IsResult(result)
    /\ Cardinality(problem.banana_locations.elems) >= 2
    /\ Len(result.sequence_actions) >= 4

(***************************************************************************)
(* C21: whenever a state with no remaining banana is reachable from the    *)
(* initial state, iterative_deepening_search returns a Result, never       *)
(* cutoff or no-solution: width * height - blocks depth limits suffice.    *)
(***************************************************************************)
C21_IDSCompleteOnSolvable ==
    (strategy = "IDS" /\ Solvable(problem) /\ Returned) => IsResult(result)

(***************************************************************************)
(* C22: when iterative_deepening_search returns a Result at depth limit d, *)
(* the plan has exactly d actions and no state without remaining bananas   *)
(* is reachable from the initial state in fewer than d actions.            *)
(***************************************************************************)
\* the (location, remaining bananas) pairs one legal action away from S
OneActionFrom(p, S) ==
    {<<Target(q[1], a), q[2] \ {Target(q[1], a)}>> :
        q \in S, a \in SeqElems(p.possible_actions)}
    \cap (((Cells(p.map_size) \ p.block_locations)) \X SUBSET p.banana_locations.elems)

\* the least number of actions after which no banana remains, counted from n
\* for the pairs S reached after n actions; defined on solvable problems
RECURSIVE LeastActionsFrom(_, _, _)
LeastActionsFrom(p, S, n) ==
    IF \E q \in S : q[2] = {} THEN n
    ELSE LeastActionsFrom(p, OneActionFrom(p, S), n + 1)

ShortestPlanLength(p) ==
    LeastActionsFrom(p, {<<p.initial_location, p.banana_locations.elems>>}, 0)

C22_IDSPlanHasMinimumLength ==
    (strategy = "IDS" /\ Returned /\ IsResult(result)) =>
        /\ Len(result.sequence_actions) = depth
        /\ ShortestPlanLength(problem) = depth

C22_Witness ==
    /\ strategy = "IDS" /\ Returned /\ IsResult(result)
    /\ depth >= 3
    /\ Cardinality(problem.banana_locations.elems) >= 2

(***************************************************************************)
(* C23: throughout uniform_cost_search and astar_search, reached holds for *)
(* each state the smallest cost (path_cost, resp. path_cost +              *)
(* heuristic_cost) of the nodes of that state pushed on the frontier so    *)
(* far: an entry only decreases, a child is pushed only when its state is  *)
(* absent or its cost is strictly below the entry, and the incumbent is a  *)
(* node with no remaining banana whose recorded cost only decreases.       *)
(***************************************************************************)
\* the cost a node is ordered and recorded by
CostOf(n) == n.path_cost + n.heuristic_cost

\* reached has an entry for the state of n, and it is at most the cost of n
RecordedAtMost(n) ==
    \E k \in DOMAIN reached : SameState(k, n) /\ reached[k] <= CostOf(n)

\* one entry per state, none above the cost of the node it was made for
OneEntryPerState ==
    \A k \in DOMAIN reached :
        /\ reached[k] <= CostOf(k)
        /\ \A k2 \in DOMAIN reached : SameState(k, k2) => k = k2

IncumbentIsGoal ==
    IF solution_node = None THEN solution = Inf
    ELSE /\ solution_node[1].state.remaining_bananas.elems = {}
         /\ solution = CostOf(solution_node[1])

\* one step of a search: entries and the incumbent's cost only decrease, and
\* a node is pushed only for an absent state or strictly below the entry,
\* which then records the cost of that node
ReachedStep ==
    /\ \A k \in DOMAIN reached : k \in DOMAIN reached' /\ reached'[k] <= reached[k]
    /\ solution' <= solution
    /\ pc = "loop" =>
          \A n \in SeqElems(frontier') \ SeqElems(frontier) :
              /\ \A k \in DOMAIN reached : SameState(k, n) => CostOf(n) < reached[k]
              /\ \E k \in DOMAIN reached' : SameState(k, n) /\ reached'[k] = CostOf(n)

\* the claim as made: every node on the frontier, the root included
C23_ReachedHoldsSmallestCost ==
    /\ [](CostSearch =>
            /\ \A n \in SeqElems(frontier) : RecordedAtMost(n)
            /\ OneEntryPerState /\ IncumbentIsGoal)
    /\ [][CostSearch => ReachedStep]_vars

\* the claim for the nodes the loop pushes: the root is pushed unrecorded
C23_ReachedHoldsSmallestCostOfChildren ==
    /\ [](CostSearch =>
            /\ \A n \in SeqElems(frontier) : n.parent # None => RecordedAtMost(n)
            /\ OneEntryPerState /\ IncumbentIsGoal)
    /\ [][CostSearch => ReachedStep]_vars

\* a search in its loop holds an incumbent and has pushed a node for a state
\* it had recorded: the entry is below the cost of the node it was made for
C23_Witness ==
    /\ CostSearch /\ pc = "loop" /\ solution_node # None
    /\ \E k \in DOMAIN reached : reached[k] < CostOf(k)

====
